---- MODULE Spec2Model ----
(***************************************************************************)
(* Model of the g1 assembler (g1asm/assembler.py): the lazy token stream   *)
(* of the lexer, the first pass of assemble_tokens (meta variables,        *)
(* labels, instruction lines collected by get_until_newline), the second   *)
(* pass (parse_argument_token over every raw instruction), the tick/start  *)
(* entries, and assemble/main around them (output file, exit status).      *)
(*                                                                         *)
(* Token texts are sequences of one-character strings, so that the         *)
(* conversions of the code (int(), value[1:], value[:-1]) are computed and *)
(* not assumed.  Python integers are unbounded; they are kept as a sign    *)
(* and two decimal limbs, so that values just outside the 32 bit range are *)
(* representable.                                                          *)
(*                                                                         *)
(* The run is modelled with data_file_path = None, include_source = False  *)
(* and the json output format (the defaults of main).                      *)
(***************************************************************************)
EXTENDS Integers, Sequences, FiniteSets, TLC

\* Number of tokens the lexer yields in one run, at most.
MaxTokens == 8

\* Number of argument tokens an instruction line carries beyond the count its
\* mnemonic expects, at most.
MaxExtraArguments == 1

\* Line and column (both from 1) of a token whose diagnostic is rendered, at
\* most.
MaxLineNumber == 101
MaxColumn == 3

-----------------------------------------------------------------------------
(* Python int: unbounded integers as sign and limbs, value = hi*Limb + lo *)

Limb == 10 ^ 5

PyNat(n) == [neg |-> FALSE, hi |-> n \div Limb, lo |-> n % Limb]

PyNeg(p) == IF p.hi = 0 /\ p.lo = 0 THEN p ELSE [p EXCEPT !.neg = ~p.neg]

PySucc(p) == IF p.lo + 1 = Limb THEN [p EXCEPT !.hi = p.hi + 1, !.lo = 0]
                                ELSE [p EXCEPT !.lo = p.lo + 1]

\* a TLC integer (32 bit) as a Python int; -(n+1) avoids negating -2^31
PyInt(n) == IF n >= 0 THEN PyNat(n) ELSE PyNeg(PySucc(PyNat(-(n + 1))))

MagLess(a, b) == a.hi < b.hi \/ (a.hi = b.hi /\ a.lo < b.lo)

\* a < b on Python ints
PyLess(a, b) ==
    IF a.neg /\ ~b.neg THEN TRUE
    ELSE IF ~a.neg /\ b.neg THEN FALSE
    ELSE IF a.neg THEN MagLess(b, a)
    ELSE MagLess(a, b)

PyLessEq(a, b) == a = b \/ PyLess(a, b)

Digits == <<"0", "1", "2", "3", "4", "5", "6", "7", "8", "9">>

IsDigit(c) == \E i \in 1..10 : Digits[i] = c

DigitValue(c) == (CHOOSE i \in 1..10 : Digits[i] = c) - 1

\* the magnitude of a digit string, most significant digit first
RECURSIVE Magnitude(_, _)
Magnitude(text, acc) ==
    IF text = <<>> THEN acc
    ELSE LET low == 10 * acc.lo + DigitValue(Head(text))
         IN  Magnitude(Tail(text),
                       [neg |-> FALSE,
                        hi  |-> 10 * acc.hi + (low \div Limb),
                        lo  |-> low % Limb])

AllDigits(text) == text # <<>> /\ \A i \in 1..Len(text) : IsDigit(text[i])

\* the texts Python's int() accepts among the texts the lexer can produce
IsIntLiteral(text) ==
    /\ text # <<>>
    /\ IF Head(text) = "-" THEN AllDigits(Tail(text)) ELSE AllDigits(text)

\* int(text), for a text int() accepts
int(text) ==
    IF Head(text) = "-" THEN PyNeg(Magnitude(Tail(text), PyNat(0)))
                        ELSE Magnitude(text, PyNat(0))

INT_RANGE_UPPER == 2147483647
INT_RANGE_LOWER == -2147483647 - 1

\* faulty variant: the upper limit itself is refused
OutOfRange_Exclusive(parsed) ==
    PyLess(parsed, PyInt(INT_RANGE_LOWER)) \/ PyLessEq(PyInt(INT_RANGE_UPPER), parsed)

OutOfRange(parsed) ==
    PyLess(parsed, PyInt(INT_RANGE_LOWER)) \/ PyLess(PyInt(INT_RANGE_UPPER), parsed)

-----------------------------------------------------------------------------
(* Texts and tokens *)

memory   == <<"m", "e", "m", "o", "r", "y">>
width    == <<"w", "i", "d", "t", "h">>
height   == <<"h", "e", "i", "g", "h", "t">>
tickrate == <<"t", "i", "c", "k", "r", "a", "t", "e">>
tick     == <<"t", "i", "c", "k">>
start    == <<"s", "t", "a", "r", "t">>
halt     == <<"h", "a", "l", "t">>
jmp      == <<"j", "m", "p">>
add      == <<"a", "d", "d">>

Token(name, value) == [name |-> name, value |-> value]

NEWLINE == Token("NEWLINE", <<"\n">>)
COMMENT == Token("COMMENT", <<";">>)

\* text that no rule of the lexer matches: the lexer raises LexingError there
\* instead of yielding a token
UNLEXABLE == Token("LexingError", <<"@">>)

\* sources about labels and the references to them
LabelTokens ==
    { NEWLINE, COMMENT,
      Token("LABEL_NAME", tick \o <<":">>),
      Token("LABEL_NAME", start \o <<":">>),
      Token("NAME", jmp),
      Token("NAME", start),
      Token("NUMBER", <<"3">>) }

\* sources about the file header
HeaderTokens ==
    { NEWLINE, COMMENT, UNLEXABLE,
      Token("META_VARIABLE", <<"#">> \o memory),
      Token("META_VARIABLE", <<"#", "q">>),
      Token("LABEL_NAME", start \o <<":">>),
      Token("NAME", halt),
      Token("NUMBER", <<"2", "5", "6">>) }

\* sources about instruction lines and their argument counts
InstructionTokens ==
    { NEWLINE, COMMENT,
      Token("LABEL_NAME", tick \o <<":">>),
      Token("NAME", halt), Token("NAME", jmp), Token("NAME", add),
      Token("NUMBER", <<"3">>),
      Token("ADDRESS", <<"$", "1">>) }

\* sources whose literals are at and around the 32 bit limits
LiteralTokens ==
    { NEWLINE,
      Token("LABEL_NAME", start \o <<":">>),
      Token("NAME", jmp),
      Token("NAME", start),
      Token("NUMBER", <<"0", "0", "7">>),
      Token("NUMBER", <<"2", "1", "4", "7", "4", "8", "3", "6", "4", "7">>),
      Token("NUMBER", <<"2", "1", "4", "7", "4", "8", "3", "6", "4", "8">>),
      Token("NUMBER", <<"-", "2", "1", "4", "7", "4", "8", "3", "6", "4", "8">>),
      Token("NUMBER", <<"-", "2", "1", "4", "7", "4", "8", "3", "6", "4", "9">>),
      Token("ADDRESS", <<"$", "0", "0", "7">>),
      Token("ADDRESS", <<"$", "2", "1", "4", "7", "4", "8", "3", "6", "4", "7">>),
      Token("ADDRESS", <<"$", "2", "1", "4", "7", "4", "8", "3", "6", "4", "8">>) }

\* sources whose instruction lines carry tokens of every kind as arguments
ArgumentTokens ==
    { NEWLINE,
      Token("LABEL_NAME", start \o <<":">>),
      Token("NAME", jmp),
      Token("META_VARIABLE", <<"#">> \o memory),
      Token("NUMBER", <<"5">>) }

\* sources that assign to memory locations at and around the reserved ones
ReservedTokens ==
    { NEWLINE,
      Token("LABEL_NAME", tick \o <<":">>),
      Token("NAME", add),
      Token("NAME", tick),
      Token("NUMBER", <<"1", "1">>),
      Token("NUMBER", <<"1", "2">>),
      Token("NUMBER", <<"-", "1">>) }

\* sources that declare meta variables more than once
MetaTokens ==
    { NEWLINE,
      Token("META_VARIABLE", <<"#">> \o memory),
      Token("META_VARIABLE", <<"#">> \o width),
      Token("META_VARIABLE", <<"#", "q">>),
      Token("NUMBER", <<"2", "5", "6">>),
      Token("NUMBER", <<"6", "4">>) }

\* the vocabularies of the sources explored
Vocabularies ==
    {LabelTokens, HeaderTokens, InstructionTokens, LiteralTokens, ArgumentTokens,
     ReservedTokens, MetaTokens}

-----------------------------------------------------------------------------
(* g1asm.instructions: the catalog of mnemonics *)

INSTRUCTIONS == {halt, jmp, add}

ARGUMENT_COUNT_LOOKUP(name) ==
    IF name = halt THEN 0 ELSE IF name = jmp THEN 1 ELSE 3

ASSIGNMENT_INSTRUCTIONS == {add}

-----------------------------------------------------------------------------
(* Constants of the assembler *)

META_VARIABLES ==
    (memory :> PyNat(128)) @@ (width :> PyNat(100))
        @@ (height :> PyNat(100)) @@ (tickrate :> PyNat(60))

EmptyDict == [k \in {} |-> 0]

\* d[key] = value on a dict
DictSet(d, key, value) ==
    [k \in DOMAIN d \cup {key} |-> IF k = key THEN value ELSE d[k]]

IntValue(i) == [type |-> "int", val |-> i]
StrValue(s) == [type |-> "str", val |-> s]

NoDiagnostic == [message |-> "none", token |-> NEWLINE]

VARIABLES
    pc,                  \* where the run is
    source_tokens,       \* lexer: the tokens the source is written with
    consumed,            \* lexer: number of tokens yielded so far
    last_token,          \* lexer: name of the token yielded last
    yielded,             \* lexer: the token yielded last
    compiler_state,      \* AssemblerState of assemble_tokens
    output_json,         \* the program being built (meta, instructions, tick, start)
    labels,              \* label name -> instruction index
    raw_instructions,    \* [token, instruction_args] records of the first pass
    instruction_index,
    token,               \* the token of the iteration of the first pass that is
                         \* reading further tokens (a meta variable, a mnemonic)
    returned_tokens,     \* get_until_newline's list
    instructions,        \* resolved instructions of the second pass
    warnings,            \* what warn() and the advisory print have printed
    fatal,               \* what error() has printed
    exception,           \* the uncaught exception that ended the run, if any
    exit_status,         \* <<>> while running, <<status>> once the process ended
    output_file,         \* the contents written to output_path, in order
    source_pos,          \* position of the token handed to error() or warn()
    rendered             \* the source line and the caret line they print

vars == <<pc, source_tokens, consumed, last_token, yielded, compiler_state, output_json, labels,
          raw_instructions, instruction_index, token, returned_tokens,
          instructions, warnings, fatal, exception, exit_status, output_file,
          source_pos, rendered>>

lexer_vars  == <<source_tokens, consumed, last_token, yielded>>
pass1_vars  == <<compiler_state, labels, raw_instructions, instruction_index,
                 token, returned_tokens>>
end_vars    == <<fatal, exception, exit_status>>
render_vars == <<source_pos, rendered>>

Init ==
    /\ pc = "scan"
    /\ source_tokens \in Vocabularies
    /\ consumed = 0
    /\ last_token = "none"
    /\ yielded = NEWLINE
    /\ compiler_state = "META"
    /\ output_json = [meta |-> META_VARIABLES]
    /\ labels = EmptyDict
    /\ raw_instructions = <<>>
    /\ instruction_index = 0
    /\ token = NEWLINE
    /\ returned_tokens = <<>>
    /\ instructions = <<>>
    /\ warnings = <<>>
    /\ fatal = NoDiagnostic
    /\ exception = "none"
    /\ exit_status = <<>>
    /\ output_file = <<>>
    /\ source_pos = [lineno |-> 1, colno |-> 1]
    /\ rendered = <<>>

-----------------------------------------------------------------------------
(* The lexer: lexer.lex(source_code + '\n') is lazy; every token is made   *)
(* when the consumer asks for it.                                          *)

\* the lexer yields t: a COMMENT runs to the end of its line, so only a
\* NEWLINE follows it
Yield(t) ==
    /\ consumed < MaxTokens
    /\ t \in source_tokens \ {UNLEXABLE}
    /\ last_token = "COMMENT" => t.name = "NEWLINE"
    /\ consumed' = consumed + 1
    /\ last_token' = t.name
    /\ yielded' = t
    /\ UNCHANGED source_tokens

\* the source ends with the appended '\n': the stream is exhausted only
\* after a NEWLINE
Exhausted == last_token = "NEWLINE"

-----------------------------------------------------------------------------
(* Diagnostics and the ways the process ends *)

\* sys.exit() without an argument
SysExitStatus == 0
\* an exception nobody catches: the interpreter prints the traceback
UncaughtStatus == 1
\* sys.exit(main()) after main's return 0
MainReturnStatus == 0

error(tok, message) ==
    /\ fatal' = [message |-> message, token |-> tok]
    /\ pc' = "exited"
    /\ exit_status' = <<SysExitStatus>>
    /\ UNCHANGED exception

warn(printed, tok, message) ==
    Append(printed, [message |-> message, token |-> tok])

raise(exc) ==
    /\ exception' = exc
    /\ pc' = "exited"
    /\ exit_status' = <<UncaughtStatus>>
    /\ UNCHANGED fatal

-----------------------------------------------------------------------------
(* assemble_tokens, first pass: for token in tokens *)

ScanMetaVariable(t) ==
    /\ pc = "scan"
    /\ t.name = "META_VARIABLE"
    /\ Yield(t)
    /\ token' = t
    /\ IF compiler_state # "META"
         THEN error(t, "Found meta variable outside file header.")
         ELSE IF Tail(t.value) \notin DOMAIN META_VARIABLES
           THEN error(t, "Unrecognized meta variable.")
           ELSE pc' = "meta_value" /\ UNCHANGED end_vars
    /\ UNCHANGED <<compiler_state, output_json, labels, raw_instructions,
                   instruction_index, returned_tokens, instructions, warnings,
                   output_file>>

\* faulty variant: a key that was declared already keeps its value, as a
\* label does
MetaValue_FirstWins(t) ==
    /\ pc = "meta_value"
    /\ Yield(t)
    /\ IF IsIntLiteral(t.value)
         THEN /\ output_json' =
                    IF output_json.meta[Tail(token.value)]
                           = META_VARIABLES[Tail(token.value)]
                      THEN [output_json EXCEPT
                                !.meta[Tail(token.value)] = int(t.value)]
                      ELSE output_json
              /\ pc' = "scan"
              /\ UNCHANGED end_vars
         ELSE /\ raise("ValueError")
              /\ UNCHANGED output_json
    /\ UNCHANGED <<pass1_vars, instructions, warnings, output_file>>

\* output_json['meta'][meta_variable_name] = int(tokens.next().value)
MetaValue(t) ==
    /\ pc = "meta_value"
    /\ Yield(t)
    /\ IF IsIntLiteral(t.value)
         THEN /\ output_json' =
                    [output_json EXCEPT !.meta[Tail(token.value)] = int(t.value)]
              /\ pc' = "scan"
              /\ UNCHANGED end_vars
         ELSE /\ raise("ValueError")
              /\ UNCHANGED output_json
    /\ UNCHANGED <<pass1_vars, instructions, warnings, output_file>>

\* faulty variant: the label leaves the state as it is
LabelState_Unchanged(state) == state

LabelState(state) == "PROCEDURES"

\* faulty variant: a redeclaration overwrites the entry
RegisterLabel_LastWins(table, label_name, index) ==
    DictSet(table, label_name, index)

\* faulty variant: a label is given the index after the current one
RegisterLabel_NextIndex(table, label_name, index) ==
    IF label_name \in DOMAIN table THEN table
                                   ELSE DictSet(table, label_name, index + 1)

\* if label_name in labels: warn ... else: labels[label_name] = instruction_index
RegisterLabel(table, label_name, index) ==
    IF label_name \in DOMAIN table THEN table
                                   ELSE DictSet(table, label_name, index)

LabelName(t) == SubSeq(t.value, 1, Len(t.value) - 1)

\* faulty variant: a label line is counted like an instruction line
ScanLabelName_CountsLine(t) ==
    /\ pc = "scan"
    /\ t.name = "LABEL_NAME"
    /\ Yield(t)
    /\ compiler_state' = LabelState(compiler_state)
    /\ warnings' = IF LabelName(t) \in DOMAIN labels
                     THEN warn(warnings, t, "Label declared more than once.")
                     ELSE warnings
    /\ labels' = RegisterLabel(labels, LabelName(t), instruction_index)
    /\ instruction_index' = instruction_index + 1
    /\ UNCHANGED <<pc, output_json, raw_instructions, token, returned_tokens,
                   instructions, end_vars, output_file>>

ScanLabelName(t) ==
    /\ pc = "scan"
    /\ t.name = "LABEL_NAME"
    /\ Yield(t)
    /\ compiler_state' = LabelState(compiler_state)
    /\ warnings' = IF LabelName(t) \in DOMAIN labels
                     THEN warn(warnings, t, "Label declared more than once.")
                     ELSE warnings
    /\ labels' = RegisterLabel(labels, LabelName(t), instruction_index)
    /\ UNCHANGED <<pc, output_json, raw_instructions, instruction_index,
                   token, returned_tokens, instructions, end_vars, output_file>>

ScanName(t) ==
    /\ pc = "scan"
    /\ t.name = "NAME"
    /\ Yield(t)
    /\ token' = t
    /\ IF t.value \notin INSTRUCTIONS
         THEN error(t, "Unrecognized instruction.") /\ UNCHANGED returned_tokens
         ELSE pc' = "args" /\ returned_tokens' = <<>> /\ UNCHANGED end_vars
    /\ UNCHANGED <<compiler_state, output_json, labels, raw_instructions,
                   instruction_index, instructions, warnings, output_file>>

\* faulty variant: only too few arguments are refused
ArityMatches_AtLeast(instruction_args, instruction_arg_amount) ==
    Len(instruction_args) >= instruction_arg_amount

ArityMatches(instruction_args, instruction_arg_amount) ==
    Len(instruction_args) = instruction_arg_amount

NextInstructionIndex(index) == index + 1

\* faulty variant: a comment on an instruction line is returned with the
\* arguments
GetUntilNewline_KeepsComments(t) ==
    /\ pc = "args"
    /\ Yield(t)
    /\ t.name \notin {"COMMENT", "NEWLINE"} =>
          Len(returned_tokens) < ARGUMENT_COUNT_LOOKUP(token.value) + MaxExtraArguments
    /\ IF t.name # "NEWLINE"
         THEN /\ returned_tokens' = Append(returned_tokens, t)
              /\ UNCHANGED <<pc, raw_instructions, instruction_index, end_vars>>
         ELSE IF ~ArityMatches(returned_tokens, ARGUMENT_COUNT_LOOKUP(token.value))
           THEN /\ fatal' = [message  |-> "Wrong argument count.",
                             token    |-> token,
                             expected |-> ARGUMENT_COUNT_LOOKUP(token.value),
                             got      |-> Len(returned_tokens)]
                /\ pc' = "exited"
                /\ exit_status' = <<SysExitStatus>>
                /\ UNCHANGED <<exception, returned_tokens, raw_instructions,
                               instruction_index>>
           ELSE /\ raw_instructions' =
                      Append(raw_instructions,
                             [token |-> token, args |-> returned_tokens])
                /\ instruction_index' = NextInstructionIndex(instruction_index)
                /\ pc' = "scan"
                /\ UNCHANGED <<returned_tokens, end_vars>>
    /\ UNCHANGED <<compiler_state, output_json, labels, token, instructions,
                   warnings, output_file>>

\* faulty variant: one pass, the arguments of a line are resolved as soon as
\* the line is collected, against the labels declared so far
GetUntilNewline_ResolvesAtOnce(t) ==
    /\ pc = "args"
    /\ Yield(t)
    /\ t.name \notin {"COMMENT", "NEWLINE"} =>
          Len(returned_tokens) < ARGUMENT_COUNT_LOOKUP(token.value) + MaxExtraArguments
    /\ IF t.name = "COMMENT"
         THEN UNCHANGED <<pc, returned_tokens, raw_instructions,
                          instruction_index, end_vars>>
         ELSE IF t.name # "NEWLINE"
           THEN /\ returned_tokens' = Append(returned_tokens, t)
                /\ UNCHANGED <<pc, raw_instructions, instruction_index, end_vars>>
           ELSE IF ~ArityMatches(returned_tokens, ARGUMENT_COUNT_LOOKUP(token.value))
             THEN /\ fatal' = [message  |-> "Wrong argument count.",
                               token    |-> token,
                               expected |-> ARGUMENT_COUNT_LOOKUP(token.value),
                               got      |-> Len(returned_tokens)]
                  /\ pc' = "exited"
                  /\ exit_status' = <<SysExitStatus>>
                  /\ UNCHANGED <<exception, returned_tokens, raw_instructions,
                                 instruction_index>>
             ELSE IF \E j \in 1..Len(returned_tokens) :
                        returned_tokens[j].name = "NAME"
                            /\ returned_tokens[j].value \notin DOMAIN labels
               THEN /\ error(CHOOSE a \in {returned_tokens[j] :
                                              j \in 1..Len(returned_tokens)} :
                                 a.name = "NAME" /\ a.value \notin DOMAIN labels,
                             "Undefined label.")
                    /\ UNCHANGED <<returned_tokens, raw_instructions,
                                   instruction_index>>
               ELSE /\ raw_instructions' =
                          Append(raw_instructions,
                                 [token |-> token, args |-> returned_tokens])
                    /\ instruction_index' = NextInstructionIndex(instruction_index)
                    /\ pc' = "scan"
                    /\ UNCHANGED <<returned_tokens, end_vars>>
    /\ UNCHANGED <<compiler_state, output_json, labels, token, instructions,
                   warnings, output_file>>

\* one turn of get_until_newline's loop; at the NEWLINE the arity check and
\* the append of lines 137-140
GetUntilNewline(t) ==
    /\ pc = "args"
    /\ Yield(t)
    /\ t.name \notin {"COMMENT", "NEWLINE"} =>
          Len(returned_tokens) < ARGUMENT_COUNT_LOOKUP(token.value) + MaxExtraArguments
    /\ IF t.name = "COMMENT"
         THEN UNCHANGED <<pc, returned_tokens, raw_instructions,
                          instruction_index, end_vars>>
         ELSE IF t.name # "NEWLINE"
           THEN /\ returned_tokens' = Append(returned_tokens, t)
                /\ UNCHANGED <<pc, raw_instructions, instruction_index, end_vars>>
           ELSE IF ~ArityMatches(returned_tokens, ARGUMENT_COUNT_LOOKUP(token.value))
             THEN /\ fatal' = [message  |-> "Wrong argument count.",
                               token    |-> token,
                               expected |-> ARGUMENT_COUNT_LOOKUP(token.value),
                               got      |-> Len(returned_tokens)]
                  /\ pc' = "exited"
                  /\ exit_status' = <<SysExitStatus>>
                  /\ UNCHANGED <<exception, returned_tokens, raw_instructions,
                                 instruction_index>>
             ELSE /\ raw_instructions' =
                        Append(raw_instructions,
                               [token |-> token, args |-> returned_tokens])
                  /\ instruction_index' = NextInstructionIndex(instruction_index)
                  /\ pc' = "scan"
                  /\ UNCHANGED <<returned_tokens, end_vars>>
    /\ UNCHANGED <<compiler_state, output_json, labels, token, instructions,
                   warnings, output_file>>

\* faulty variant: a value at the top level is skipped like a comment
ScanValue_Skips(t) ==
    /\ pc = "scan"
    /\ t.name \in {"NUMBER", "ADDRESS"}
    /\ Yield(t)
    /\ UNCHANGED <<pc, compiler_state, output_json, labels, raw_instructions,
                   instruction_index, token, returned_tokens, instructions,
                   warnings, end_vars, output_file>>

ScanValue(t) ==
    /\ pc = "scan"
    /\ t.name \in {"NUMBER", "ADDRESS"}
    /\ Yield(t)
    /\ error(t, "Value outside of instruction.")
    /\ UNCHANGED <<compiler_state, output_json, labels, raw_instructions,
                   instruction_index, token, returned_tokens, instructions, warnings,
                   output_file>>

ScanSkip(t) ==
    /\ pc = "scan"
    /\ t.name \in {"COMMENT", "NEWLINE"}
    /\ Yield(t)
    /\ UNCHANGED <<pc, compiler_state, output_json, labels, raw_instructions,
                   instruction_index, token, returned_tokens, instructions,
                   warnings, end_vars, output_file>>

\* the lexer matches no rule: LexingError leaves assemble_tokens and
\* assemble's except clause calls error(e, source_lines, 'Unrecognized token.')
LexingError ==
    /\ pc \in {"scan", "meta_value", "args"}
    /\ UNLEXABLE \in source_tokens
    /\ last_token # "COMMENT"
    /\ error(UNLEXABLE, "Unrecognized token.")
    /\ UNCHANGED <<lexer_vars, pass1_vars, output_json, instructions, warnings,
                   output_file>>

\* the for loop ends
EndOfTokens ==
    /\ pc = "scan"
    /\ Exhausted
    /\ pc' = "resolve"
    /\ UNCHANGED <<lexer_vars, pass1_vars, output_json, instructions, warnings,
                   end_vars, output_file>>

-----------------------------------------------------------------------------
(* assemble_tokens, second pass *)

Resolved(value) == [error |-> "none", value |-> value]
Rejected(message) == [error |-> message, value |-> StrValue(<<>>)]

\* faulty variant: a label resolves to a one-based index
parse_argument_token_OneBased(t, table) ==
    IF t.name = "NUMBER"
      THEN IF OutOfRange(int(t.value))
             THEN Rejected("Integer value is outside the 32 bit signed integer range.")
             ELSE Resolved(IntValue(int(t.value)))
    ELSE IF t.name = "NAME"
      THEN IF t.value \notin DOMAIN table
             THEN Rejected("Undefined label.")
             ELSE Resolved(IntValue(PyNat(table[t.value] + 1)))
    ELSE IF t.name = "ADDRESS"
      THEN IF OutOfRange(int(Tail(t.value)))
             THEN Rejected("Address value is outside the 32 bit signed integer range.")
             ELSE Resolved(StrValue(t.value))
    ELSE Resolved(StrValue(t.value))

parse_argument_token(t, table) ==
    IF t.name = "NUMBER"
      THEN IF OutOfRange(int(t.value))
             THEN Rejected("Integer value is outside the 32 bit signed integer range.")
             ELSE Resolved(IntValue(int(t.value)))
    ELSE IF t.name = "NAME"
      THEN IF t.value \notin DOMAIN table
             THEN Rejected("Undefined label.")
             ELSE Resolved(IntValue(PyNat(table[t.value])))
    ELSE IF t.name = "ADDRESS"
      THEN IF OutOfRange(int(Tail(t.value)))
             THEN Rejected("Address value is outside the 32 bit signed integer range.")
             ELSE Resolved(StrValue(t.value))
    ELSE Resolved(StrValue(t.value))

\* faulty variant: location 11 is not counted among the reserved ones
ReservedAssignment_Below(instruction_name, first_argument) ==
    /\ instruction_name \in ASSIGNMENT_INSTRUCTIONS
    /\ first_argument.type = "int"
    /\ PyLess(first_argument.val, PyNat(11))

\* line 155
ReservedAssignment(instruction_name, first_argument) ==
    /\ instruction_name \in ASSIGNMENT_INSTRUCTIONS
    /\ first_argument.type = "int"
    /\ PyLessEq(first_argument.val, PyNat(11))

\* one turn of the loop of lines 150-159, on the next raw instruction
ResolveInstruction ==
    /\ pc = "resolve"
    /\ Len(instructions) < Len(raw_instructions)
    /\ LET raw     == raw_instructions[Len(instructions) + 1]
           parsed  == [j \in 1..Len(raw.args) |->
                          parse_argument_token(raw.args[j], labels)]
           failing == {j \in 1..Len(raw.args) : parsed[j].error # "none"}
           first   == CHOOSE j \in failing : \A k \in failing : j <= k
           instruction_args == [j \in 1..Len(raw.args) |-> parsed[j].value]
       IN  IF failing # {}
             THEN /\ error(raw.args[first], parsed[first].error)
                  /\ UNCHANGED <<instructions, warnings>>
             ELSE IF instruction_args = <<>>
               \* first_argument = instruction_args[0] on an empty list
               THEN /\ raise("IndexError")
                    /\ UNCHANGED <<instructions, warnings>>
               ELSE /\ warnings' =
                          IF ReservedAssignment(raw.token.value, instruction_args[1])
                            THEN warn(warnings, raw.args[1],
                                      "Assignment to a reserved memory location.")
                            ELSE warnings
                    /\ instructions' =
                          Append(instructions,
                                 [name |-> raw.token.value, args |-> instruction_args])
                    /\ UNCHANGED <<pc, end_vars>>
    /\ UNCHANGED <<lexer_vars, pass1_vars, output_json, output_file>>

\* faulty variant: the start entry is recorded only when there is a tick label
ProgramEntries_StartNeedsTick(table) ==
    [k \in {e \in {"tick", "start"} :
              tick \in DOMAIN table /\ (e = "tick" \/ start \in DOMAIN table)}
        |-> IF k = "tick" THEN table[tick] ELSE table[start]]

\* lines 162-167: the entries of the program
ProgramEntries(table) ==
    [k \in {e \in {"tick", "start"} :
              (e = "tick" /\ tick \in DOMAIN table)
                  \/ (e = "start" /\ start \in DOMAIN table)}
        |-> IF k = "tick" THEN table[tick] ELSE table[start]]

\* lines 161-171: the loop is over, the program is completed and returned
ReturnProgram ==
    /\ pc = "resolve"
    /\ Len(instructions) = Len(raw_instructions)
    /\ output_json' = [meta         |-> output_json.meta,
                       instructions |-> instructions] @@ ProgramEntries(labels)
    /\ warnings' = IF tick \in DOMAIN labels
                     THEN warnings
                     ELSE Append(warnings,
                                 [message |-> "tick label not found in program.",
                                  token   |-> NEWLINE])
    /\ pc' = "write"
    /\ UNCHANGED <<lexer_vars, pass1_vars, instructions, end_vars, output_file>>

-----------------------------------------------------------------------------
(* assemble and main *)

\* lines 198-206, with the json format and no data file
WriteOutput ==
    /\ pc = "write"
    /\ output_file' = Append(output_file, output_json)
    /\ pc' = "return"
    /\ UNCHANGED <<lexer_vars, pass1_vars, output_json, instructions, warnings,
                   end_vars>>

\* main returns 0 and the module ends with sys.exit(main())
MainReturn ==
    /\ pc = "return"
    /\ pc' = "exited"
    /\ exit_status' = <<MainReturnStatus>>
    /\ UNCHANGED <<lexer_vars, pass1_vars, output_json, instructions, warnings,
                   fatal, exception, output_file>>

Next ==
    \/ \E t \in source_tokens : ScanMetaVariable(t) /\ UNCHANGED render_vars
    \/ \E t \in source_tokens : MetaValue(t) /\ UNCHANGED render_vars
    \/ \E t \in source_tokens : ScanLabelName(t) /\ UNCHANGED render_vars
    \/ \E t \in source_tokens : ScanName(t) /\ UNCHANGED render_vars
    \/ \E t \in source_tokens : GetUntilNewline(t) /\ UNCHANGED render_vars
    \/ \E t \in source_tokens : ScanValue(t) /\ UNCHANGED render_vars
    \/ \E t \in source_tokens : ScanSkip(t) /\ UNCHANGED render_vars
    \/ LexingError /\ UNCHANGED render_vars
    \/ EndOfTokens /\ UNCHANGED render_vars
    \/ ResolveInstruction /\ UNCHANGED render_vars
    \/ ReturnProgram /\ UNCHANGED render_vars
    \/ WriteOutput /\ UNCHANGED render_vars
    \/ MainReturn /\ UNCHANGED render_vars

Spec == Init /\ [][Next]_vars

-----------------------------------------------------------------------------
(* The rendering of error() and warn(), lines 57-61 and 67-71, on its own: *)
(* the runs of Spec carry no token positions, the runs of RenderSpec hand  *)
(* a token at any position to error() and to warn().                       *)

\* str(n) of an integer n >= 0
RECURSIVE str(_)
str(n) ==
    IF n < 10 THEN <<Digits[n + 1]>>
              ELSE str(n \div 10) \o <<Digits[(n % 10) + 1]>>

\* " " * n
Spaces(n) == [i \in 1..n |-> " "]

\* source_lines[line_number]: every line of the source rendered is this text
SourceLine == <<"x", "y", "z">>

\* the second and the third print of error() and warn()
Render(pos) ==
    LET line_number   == pos.lineno - 1
        column_number == pos.colno - 1
    IN  [line  |-> str(line_number + 1) \o <<" ", "|", " ">> \o SourceLine,
         caret |-> Spaces(Len(str(line_number)) + 3 + column_number) \o <<"^">>]

RenderInit ==
    /\ pc = "render"
    /\ source_pos \in [lineno : 1..MaxLineNumber, colno : 1..MaxColumn]
    /\ rendered = <<>>
    /\ source_tokens = LabelTokens
    /\ consumed = 0
    /\ last_token = "none"
    /\ yielded = NEWLINE
    /\ compiler_state = "META"
    /\ output_json = [meta |-> META_VARIABLES]
    /\ labels = EmptyDict
    /\ raw_instructions = <<>>
    /\ instruction_index = 0
    /\ token = NEWLINE
    /\ returned_tokens = <<>>
    /\ instructions = <<>>
    /\ warnings = <<>>
    /\ fatal = NoDiagnostic
    /\ exception = "none"
    /\ exit_status = <<>>
    /\ output_file = <<>>

RenderError ==
    /\ pc = "render"
    /\ rendered' = Render(source_pos)
    /\ error(Token("NAME", SourceLine), "Unrecognized instruction.")
    /\ UNCHANGED <<lexer_vars, pass1_vars, output_json, instructions, warnings,
                   output_file, source_pos>>

RenderWarn ==
    /\ pc = "render"
    /\ rendered' = Render(source_pos)
    /\ warnings' = warn(warnings, Token("LABEL_NAME", SourceLine),
                        "Label declared more than once.")
    /\ pc' = "warned"
    /\ UNCHANGED <<lexer_vars, pass1_vars, output_json, instructions, end_vars,
                   output_file, source_pos>>

RenderNext == RenderError \/ RenderWarn

RenderSpec == RenderInit /\ [][RenderNext]_vars

-----------------------------------------------------------------------------
(* Properties *)

\* a step of the first pass that takes a token of the given kind at the top
\* level of the scan
TopLevelStep(kind) ==
    pc = "scan" /\ consumed' = consumed + 1 /\ last_token' = kind

\* the run has written its output and ended
Assembled == pc = "exited" /\ Len(output_file) = 1

\* C1: the index registered for a label is the number of instruction records
\* appended before the label's first LABEL_NAME token was processed, and it
\* stays; the index counts the records, so that labels, comments, newlines and
\* meta declarations never advance it.
C1_LabelIndexCountsInstructions ==
    [][ /\ instruction_index = Len(raw_instructions)
        /\ instruction_index' = Len(raw_instructions')
        /\ \A name \in DOMAIN labels' :
              IF name \in DOMAIN labels
                THEN labels'[name] = labels[name]
                ELSE /\ labels'[name] = Len(raw_instructions)
                     /\ raw_instructions' = raw_instructions
        /\ pc \in {"scan", "meta_value"} =>
              /\ instruction_index' = instruction_index
              /\ raw_instructions' = raw_instructions
      ]_vars

\* C1 witness: an assembled program whose label start stands after the first
\* of two instructions
C1_Witness ==
    /\ Assembled
    /\ Len(raw_instructions) = 2
    /\ start \in DOMAIN labels
    /\ labels[start] = 1

\* C2: every NAME argument resolves to the index the label table holds for
\* it at the end of the first pass, wherever the instruction stands
C2_ReferenceResolvesToLabel ==
    \A i \in 1..Len(instructions) :
        \A j \in 1..Len(raw_instructions[i].args) :
            raw_instructions[i].args[j].name = "NAME" =>
                /\ raw_instructions[i].args[j].value \in DOMAIN labels
                /\ instructions[i].args[j] =
                      [type |-> "int",
                       val  |-> [neg |-> FALSE, hi |-> 0,
                                 lo  |-> labels[raw_instructions[i].args[j].value]]]

\* C2 witness: an assembled program in which the same label is referenced by
\* an instruction before its declaration and by one after it
C2_Witness ==
    /\ Assembled
    /\ \E i, k \in 1..Len(instructions) :
          /\ raw_instructions[i].args[1].name = "NAME"
          /\ raw_instructions[k].args[1] = raw_instructions[i].args[1]
          /\ i - 1 < labels[raw_instructions[i].args[1].value]
          /\ k - 1 >= labels[raw_instructions[i].args[1].value]
          /\ instructions[i].args[1] = instructions[k].args[1]

\* C3: an entry of the label table never changes; a LABEL_NAME token at the
\* top level never ends the run, and when its name is registered already it
\* adds the warning and nothing else; the tick and start entries of the output
\* are the entries of the table
C3_FirstDeclarationWins ==
    [][ /\ \A name \in DOMAIN labels :
              name \in DOMAIN labels' /\ labels'[name] = labels[name]
        /\ TopLevelStep("LABEL_NAME") =>
              /\ pc' = "scan"
              /\ fatal' = fatal /\ exception' = exception
              /\ \/ /\ Cardinality(DOMAIN labels') = Cardinality(DOMAIN labels) + 1
                    /\ warnings' = warnings
                 \/ /\ labels' = labels
                    /\ Len(warnings') = Len(warnings) + 1
                    /\ warnings'[Len(warnings')].message = "Label declared more than once."
                    /\ LabelName(warnings'[Len(warnings')].token) \in DOMAIN labels
        /\ pc' = "write" =>
              /\ tick \in DOMAIN labels => output_json'.tick = labels[tick]
              /\ start \in DOMAIN labels => output_json'.start = labels[start]
      ]_vars

\* C3 witness: tick is declared, an instruction follows, and tick is declared
\* again: the warning is there and the entry is still the first index
C3_Witness ==
    /\ pc = "scan"
    /\ last_token = "LABEL_NAME"
    /\ instruction_index = 1
    /\ tick \in DOMAIN labels
    /\ labels[tick] = 0
    /\ Len(warnings) = 1
    /\ warnings[1].message = "Label declared more than once."
    /\ LabelName(warnings[1].token) = tick

\* a NUMBER or ADDRESS token and the integer its digits denote
IsLiteral(t) == t.name \in {"NUMBER", "ADDRESS"}
LiteralValue(t) == IF t.name = "NUMBER" THEN int(t.value) ELSE int(Tail(t.value))

\* -2^31 <= p <= 2^31-1, on the limbs of p
WithinLimits(p) ==
    \/ p.hi < 21474
    \/ p.hi = 21474 /\ p.lo <= (IF p.neg THEN 83648 ELSE 83647)

RangeMessages ==
    {"Integer value is outside the 32 bit signed integer range.",
     "Address value is outside the 32 bit signed integer range."}

RangeMessage(t) ==
    IF t.name = "NUMBER"
      THEN "Integer value is outside the 32 bit signed integer range."
      ELSE "Address value is outside the 32 bit signed integer range."

\* the resolver accepts the argument token
Resolvable(t) ==
    /\ IsLiteral(t) => WithinLimits(LiteralValue(t))
    /\ t.name = "NAME" => t.value \in DOMAIN labels

\* the instruction lines collected so far carry a literal outside the range
CarriesOutOfRangeLiteral ==
    \E i \in 1..Len(raw_instructions) :
        \E j \in 1..Len(raw_instructions[i].args) :
            /\ IsLiteral(raw_instructions[i].args[j])
            /\ ~WithinLimits(LiteralValue(raw_instructions[i].args[j]))

\* the literals of the resolved instructions are inside the range and kept
\* exactly: a NUMBER as its integer, an ADDRESS as its text
ResolvedLiteralsExact ==
    \A i \in 1..Len(instructions) :
        \A j \in 1..Len(raw_instructions[i].args) :
            LET t == raw_instructions[i].args[j]
            IN  /\ t.name = "NUMBER" =>
                      /\ WithinLimits(int(t.value))
                      /\ instructions[i].args[j] = [type |-> "int", val |-> int(t.value)]
                /\ t.name = "ADDRESS" =>
                      /\ WithinLimits(int(Tail(t.value)))
                      /\ instructions[i].args[j] = [type |-> "str", val |-> t.value]

\* C4 as stated: whenever an instruction carries a literal outside the range,
\* the run ends in the range error
C4_Original ==
    /\ ResolvedLiteralsExact
    /\ (pc = "exited" /\ CarriesOutOfRangeLiteral) =>
          fatal.message \in RangeMessages

\* C4 amended: when the second pass reaches a literal outside the range (the
\* arguments before it on the line resolve), the run ends in the range error
\* on that token; the literals of resolved instructions are inside the range
\* and kept exactly; a run whose instructions carry a literal outside the
\* range never writes an output; a line whose arguments are all inside the
\* range and declared is resolved, and the range error is raised on literals
\* outside the range only
C4_LiteralsCheckedWhenResolved ==
    /\ []ResolvedLiteralsExact
    /\ [](CarriesOutOfRangeLiteral => output_file = <<>>)
    /\ [](fatal.message \in RangeMessages =>
              /\ fatal.message = RangeMessage(fatal.token)
              /\ IsLiteral(fatal.token)
              /\ ~WithinLimits(LiteralValue(fatal.token)))
    /\ [][ (pc = "resolve" /\ Len(instructions) < Len(raw_instructions)) =>
              LET line == raw_instructions[Len(instructions) + 1].args
              IN  /\ (line # <<>> /\ \A j \in 1..Len(line) : Resolvable(line[j])) =>
                      /\ pc' = "resolve"
                      /\ Len(instructions') = Len(instructions) + 1
                  /\ \A j \in 1..Len(line) :
                        ( /\ IsLiteral(line[j])
                          /\ ~WithinLimits(LiteralValue(line[j]))
                          /\ \A k \in 1..(j - 1) : Resolvable(line[k]) ) =>
                            /\ pc' = "exited"
                            /\ fatal' = [message |-> RangeMessage(line[j]),
                                         token   |-> line[j]]
                            /\ instructions' = instructions
      ]_vars

\* C4 witness: -2147483648 was resolved to itself and the next line's
\* 2147483648 ended the run in the range error
C4_Witness ==
    /\ pc = "exited"
    /\ Len(instructions) = 1
    /\ instructions[1].args[1] =
          [type |-> "int", val |-> [neg |-> TRUE, hi |-> 21474, lo |-> 83648]]
    /\ fatal.message = "Integer value is outside the 32 bit signed integer range."
    /\ fatal.token.value = <<"2", "1", "4", "7", "4", "8", "3", "6", "4", "8">>

\* C5: an instruction line that ends with an argument count other than the
\* mnemonic's ends the run in the arity error naming both counts, appends no
\* record, and the run writes no output
C5_WrongArityIsFatal ==
    [][ /\ (pc = "args" /\ consumed' = consumed + 1 /\ last_token' = "NEWLINE"
               /\ Len(returned_tokens) # ARGUMENT_COUNT_LOOKUP(token.value)) =>
              /\ pc' = "exited"
              /\ fatal' = [message  |-> "Wrong argument count.",
                           token    |-> token,
                           expected |-> ARGUMENT_COUNT_LOOKUP(token.value),
                           got      |-> Len(returned_tokens)]
              /\ raw_instructions' = raw_instructions
              /\ output_file' = <<>>
        /\ fatal.message = "Wrong argument count." =>
              /\ fatal.got # fatal.expected
              /\ output_file = <<>> /\ output_file' = <<>>
      ]_vars

\* C5 witness: add, which expects 3 arguments, was given 4
C5_Witness ==
    /\ pc = "exited"
    /\ fatal.message = "Wrong argument count."
    /\ fatal.token.value = add
    /\ fatal.expected = 3
    /\ fatal.got = 4
    /\ Len(returned_tokens) = 4

\* the fatal diagnostics of the error taxonomy: lexical, structural, resolution
LexicalMessages == {"Unrecognized token."}
StructuralMessages ==
    {"Found meta variable outside file header.", "Unrecognized meta variable.",
     "Unrecognized instruction.", "Wrong argument count.",
     "Value outside of instruction."}
ResolutionMessages == RangeMessages \cup {"Undefined label."}
FatalMessages == LexicalMessages \cup StructuralMessages \cup ResolutionMessages

\* C6 as stated: a run that has ended either completed and wrote exactly one
\* output file, or raised a fatal diagnostic and wrote nothing; the output is
\* never written in a run that raises a fatal diagnostic
C6_Original ==
    /\ Len(output_file) <= 1
    /\ fatal # NoDiagnostic => output_file = <<>>
    /\ pc = "exited" =>
          \/ fatal = NoDiagnostic /\ Len(output_file) = 1
          \/ fatal.message \in FatalMessages /\ output_file = <<>>

\* every collected line has its mnemonic's argument count, every literal is
\* in range and every referenced label is declared
ProgramIsValid ==
    \A i \in 1..Len(raw_instructions) :
        /\ Len(raw_instructions[i].args) =
              ARGUMENT_COUNT_LOOKUP(raw_instructions[i].token.value)
        /\ \A j \in 1..Len(raw_instructions[i].args) :
              Resolvable(raw_instructions[i].args[j])

\* C7 as stated: the second pass of a valid program never fails, and it
\* returns one resolved instruction per instruction line, in source order
C7_Original ==
    [][ (pc = "resolve" /\ ProgramIsValid) =>
            /\ pc' \in {"resolve", "write"}
            /\ fatal' = NoDiagnostic
            /\ exception' = "none"
            /\ pc' = "write" =>
                  /\ Len(instructions) = Len(raw_instructions)
                  /\ \A i \in 1..Len(instructions) :
                        instructions[i].name = raw_instructions[i].token.value
      ]_vars

TickAdvisory ==
    \E w \in 1..Len(warnings) :
        warnings[w].message = "tick label not found in program."

\* C8: the program has a tick entry exactly when the label table has tick, a
\* start entry exactly when it has start, each the label's index; without a
\* tick label the second pass still returns the program, with the advisory,
\* and the program returned is written
C8_EntriesFollowLabels ==
    /\ []( (pc \in {"write", "return"} \/ output_file # <<>>) =>
              /\ "tick" \in DOMAIN output_json <=> tick \in DOMAIN labels
              /\ "start" \in DOMAIN output_json <=> start \in DOMAIN labels
              /\ tick \in DOMAIN labels => output_json.tick = labels[tick]
              /\ start \in DOMAIN labels => output_json.start = labels[start]
              /\ tick \notin DOMAIN labels <=> TickAdvisory
              /\ output_file \in {<<>>, <<output_json>>} )
    /\ [][ /\ (pc = "resolve" /\ Len(instructions) = Len(raw_instructions)) =>
                  pc' = "write" /\ fatal' = NoDiagnostic /\ exception' = "none"
           /\ pc = "write" => output_file' = <<output_json>> /\ pc' = "return"
           /\ pc = "return" => exit_status' = <<0>> /\ output_file' = output_file
         ]_vars

\* C8 witness: an assembled program with a start entry and no tick entry
C8_Witness ==
    /\ Assembled
    /\ "tick" \notin DOMAIN output_file[1]
    /\ "start" \in DOMAIN output_file[1]
    /\ output_file[1].start = 1
    /\ TickAdvisory

\* C9 as stated: a run in which error() was called has ended with a status
\* other than 0, and a warning ends nothing
C9_Original ==
    /\ fatal # NoDiagnostic => exit_status # <<>> /\ exit_status # <<0>>
    /\ (warnings # <<>> /\ fatal = NoDiagnostic /\ exception = "none") =>
          (exit_status = <<>> \/ Assembled)

\* a LABEL_NAME token is among the tokens taken from the lexer
LabelNameTokenTaken ==
    \/ DOMAIN labels # {}
    \/ \E j \in 1..Len(returned_tokens) : returned_tokens[j].name = "LABEL_NAME"
    \/ \E i \in 1..Len(raw_instructions) :
          \E j \in 1..Len(raw_instructions[i].args) :
              raw_instructions[i].args[j].name = "LABEL_NAME"

TakesToken(kind) == consumed' = consumed + 1 /\ last_token' = kind

\* C11 as stated: every META_VARIABLE token taken from the stream while the
\* state is PROCEDURES ends the run in the fatal error about the file header,
\* and the meta mapping is not modified once the state is PROCEDURES
C11_Original ==
    [][ /\ (compiler_state = "PROCEDURES" /\ TakesToken("META_VARIABLE")) =>
              /\ pc' = "exited"
              /\ fatal'.message = "Found meta variable outside file header."
        /\ compiler_state = "PROCEDURES" => output_json'.meta = output_json.meta
      ]_vars

\* the resolved argument is of one of the three encodings of its token's kind
EncodesToken(t, v) ==
    \/ /\ t.name = "NUMBER"
       /\ v.type = "int" /\ v.val = int(t.value) /\ WithinLimits(v.val)
    \/ /\ t.name = "NAME"
       /\ t.value \in DOMAIN labels
       /\ v.type = "int" /\ v.val = [neg |-> FALSE, hi |-> 0, lo |-> labels[t.value]]
    \/ /\ t.name = "ADDRESS"
       /\ v.type = "str" /\ v.val = t.value
       /\ Head(v.val) = "$" /\ AllDigits(Tail(v.val))

\* C12 as stated: in an accepted program every argument of every resolved
\* instruction is an integer in range from a NUMBER, a label's index from a
\* NAME or the address text from an ADDRESS; no token of another kind was
\* resolved
C12_Original ==
    Assembled =>
        \A i \in 1..Len(instructions) :
            \A j \in 1..Len(instructions[i].args) :
                EncodesToken(raw_instructions[i].args[j], instructions[i].args[j])

\* C13 as stated: a run ends in no failure other than a listed fatal
\* diagnostic raised through error() on a token: no exception leaves the run,
\* and a run that ended without writing its output printed one of the
\* diagnostics
C13_Original ==
    /\ exception = "none"
    /\ exit_status # <<>> =>
          \/ Assembled /\ fatal = NoDiagnostic
          \/ fatal.message \in FatalMessages

ReservedWarning == "Assignment to a reserved memory location."

\* C14: the second pass starts only when the for loop over the tokens has
\* ended at the end of the stream without a failure, and takes no token; a
\* resolved instruction, a resolution error and a reserved-memory warning
\* appear only in the second pass, over the label table and the instruction
\* lines of the whole source; so a run that ends in a first-pass error has
\* resolved nothing, whatever its earlier lines hold
C14_ResolutionAfterFirstPass ==
    /\ [](fatal.message \in LexicalMessages \cup StructuralMessages =>
              /\ instructions = <<>>
              /\ \A w \in 1..Len(warnings) : warnings[w].message # ReservedWarning)
    /\ [][ /\ (pc' = "resolve" /\ pc # "resolve") =>
                  /\ pc = "scan" /\ Exhausted
                  /\ fatal = NoDiagnostic /\ exception = "none"
           /\ pc \in {"resolve", "write", "return", "exited"} =>
                  consumed' = consumed
           /\ ( \/ instructions' # instructions
                \/ fatal' # fatal /\ fatal'.message \in ResolutionMessages
                \/ /\ Len(warnings') > Len(warnings)
                   /\ warnings'[Len(warnings')].message = ReservedWarning ) =>
                  /\ pc = "resolve"
                  /\ raw_instructions' = raw_instructions
                  /\ labels' = labels
         ]_vars

\* C14 witness: the first line carries a literal outside the range, the
\* second line starts with a name that is no mnemonic: the run ended in the
\* first-pass error and resolved nothing
C14_Witness ==
    /\ pc = "exited"
    /\ fatal.message = "Unrecognized instruction."
    /\ CarriesOutOfRangeLiteral
    /\ instructions = <<>>

\* an integer <= 11, on its sign and limbs
AtMostEleven(p) == p.neg \/ (p.hi = 0 /\ p.lo <= 11)

\* C15: a step of the second pass that resolves an instruction appends the
\* mnemonic with the resolved arguments, prints the reserved-memory warning
\* on the first argument's token exactly when the mnemonic is an assignment
\* instruction and the first resolved argument is an integer <= 11, and does
\* not end the run
C15_ReservedWarningExactly ==
    [][ (pc = "resolve" /\ Len(instructions') = Len(instructions) + 1) =>
            LET raw   == raw_instructions[Len(instructions) + 1]
                res   == instructions'[Len(instructions')]
                first == res.args[1]
            IN  /\ res.name = raw.token.value
                /\ Len(res.args) = Len(raw.args)
                /\ \A j \in 1..Len(raw.args) :
                      res.args[j] = parse_argument_token(raw.args[j], labels).value
                /\ IF /\ raw.token.value \in ASSIGNMENT_INSTRUCTIONS
                      /\ first.type = "int"
                      /\ AtMostEleven(first.val)
                     THEN warnings' =
                            Append(warnings, [message |-> ReservedWarning,
                                              token   |-> raw.args[1]])
                     ELSE warnings' = warnings
                /\ pc' = "resolve"
                /\ fatal' = fatal /\ exception' = exception
                /\ exit_status' = <<>>
      ]_vars

\* C15 witness: an assembled program whose add instruction has the label tick
\* (index 0) as first argument: the warning was printed on that token and the
\* instruction was written with the argument 0
C15_Witness ==
    /\ Assembled
    /\ Len(warnings) = 1
    /\ warnings[1] = [message |-> ReservedWarning, token |-> Token("NAME", tick)]
    /\ output_file[1].instructions[1].name = add
    /\ output_file[1].instructions[1].args[1] = IntValue(PyNat(0))

\* C16: a NUMBER or ADDRESS token taken at the top level of the scan ends the
\* run in the error about a value outside of an instruction, raised on that
\* token; a NAME token taken there that is no mnemonic of the catalog ends it
\* in the error about an unrecognized instruction, raised on that token; a
\* mnemonic there ends nothing; none of these steps adds an instruction
\* record or a label, and the two errors arise in no other way
C16_StrayValueAndUnknownName ==
    [][ /\ (TopLevelStep("NUMBER") \/ TopLevelStep("ADDRESS")) =>
              /\ pc' = "exited"
              /\ fatal'.message = "Value outside of instruction."
              /\ fatal'.token.name = last_token'
              /\ raw_instructions' = raw_instructions
              /\ labels' = labels
        /\ TopLevelStep("NAME") =>
              /\ raw_instructions' = raw_instructions
              /\ labels' = labels
              /\ IF token'.value \in INSTRUCTIONS
                   THEN pc' = "args" /\ fatal' = NoDiagnostic
                   ELSE /\ pc' = "exited"
                        /\ fatal' = [message |-> "Unrecognized instruction.",
                                     token   |-> token']
        /\ ( /\ fatal' # fatal
             /\ fatal'.message \in {"Value outside of instruction.",
                                    "Unrecognized instruction."} ) =>
              /\ pc = "scan"
              /\ consumed' = consumed + 1
              /\ fatal'.token.name = last_token'
              /\ output_file' = <<>>
      ]_vars

\* C16 witness: after a label and an instruction line, an ADDRESS token at
\* the top level ended the run; the label and the record are as they were
C16_Witness ==
    /\ pc = "exited"
    /\ fatal.message = "Value outside of instruction."
    /\ fatal.token.name = "ADDRESS"
    /\ Len(raw_instructions) = 1
    /\ DOMAIN labels = {tick}
    /\ output_file = <<>>

\* the indices the assembled program carries: the entries of the label
\* table, the tick and start entries, the arguments resolved from NAME tokens
ProgramIndices ==
    {labels[name] : name \in DOMAIN labels}
        \cup {output_file[1][e] : e \in DOMAIN output_file[1] \cap {"tick", "start"}}
        \cup UNION { {instructions[i].args[j].val.lo :
                         j \in {k \in 1..Len(raw_instructions[i].args) :
                                  raw_instructions[i].args[k].name = "NAME"}} :
                     i \in 1..Len(instructions) }

\* C17 as stated: every index the assembled program carries is the index of
\* one of its instructions
C17_Original ==
    Assembled =>
        \A index \in ProgramIndices :
            0 <= index /\ index < Len(output_file[1].instructions)

\* C17 amended: every index in the label table is between 0 and the number
\* of instruction lines collected so far, inclusive; in the assembled program
\* every index carried is between 0 and the number of its instructions,
\* inclusive
C17_LabelIndexWithinProgram ==
    /\ \A name \in DOMAIN labels :
          0 <= labels[name] /\ labels[name] <= Len(raw_instructions)
    /\ Assembled =>
          /\ Len(output_file[1].instructions) = Len(raw_instructions)
          /\ \A index \in ProgramIndices :
                0 <= index /\ index <= Len(output_file[1].instructions)

\* C17 witness: an assembled program of one instruction whose label start is
\* declared after it: the start entry and the argument resolved from the
\* label are 1
C17_Witness ==
    /\ Assembled
    /\ Len(output_file[1].instructions) = 1
    /\ "start" \in DOMAIN output_file[1]
    /\ output_file[1].start = 1
    /\ raw_instructions[1].args[1] = Token("NAME", start)
    /\ output_file[1].instructions[1].args[1] = IntValue(PyNat(1))

MetaKeys == {memory, width, height, tickrate}

\* the value of a short run of digits
RECURSIVE DecimalValue(_)
DecimalValue(text) ==
    IF text = <<>> THEN 0
    ELSE 10 * DecimalValue(SubSeq(text, 1, Len(text) - 1))
            + DigitValue(text[Len(text)])

\* C18: the meta mapping has the four keys at all times and the defaults at
\* the start; a NUMBER token taken as the value of a recognized meta variable
\* sets that key to the number, whatever the key held, and leaves the other
\* keys as they were; the mapping changes in no other step; a META_VARIABLE
\* token with an unrecognized name, taken in META state at the top level,
\* ends the run in the error about it and leaves the mapping as it was
C18_MetaMapping ==
    /\ [](DOMAIN output_json.meta = MetaKeys)
    /\ [](consumed = 0 =>
              /\ output_json.meta[memory] = [neg |-> FALSE, hi |-> 0, lo |-> 128]
              /\ output_json.meta[width] = [neg |-> FALSE, hi |-> 0, lo |-> 100]
              /\ output_json.meta[height] = [neg |-> FALSE, hi |-> 0, lo |-> 100]
              /\ output_json.meta[tickrate] = [neg |-> FALSE, hi |-> 0, lo |-> 60])
    /\ [][ /\ (pc = "meta_value" /\ TakesToken("NUMBER")) =>
                  /\ Tail(token.value) \in MetaKeys
                  /\ compiler_state = "META"
                  /\ pc' = "scan"
                  /\ output_json'.meta[Tail(token.value)] =
                        [neg |-> FALSE, hi |-> 0, lo |-> DecimalValue(yielded'.value)]
                  /\ \A key \in MetaKeys \ {Tail(token.value)} :
                        output_json'.meta[key] = output_json.meta[key]
           /\ output_json'.meta # output_json.meta =>
                  pc = "meta_value" /\ TakesToken("NUMBER")
           /\ ( /\ TopLevelStep("META_VARIABLE")
                /\ compiler_state = "META"
                /\ Tail(yielded'.value) \notin MetaKeys ) =>
                  /\ pc' = "exited"
                  /\ fatal' = [message |-> "Unrecognized meta variable.",
                               token   |-> yielded']
                  /\ output_json' = output_json
         ]_vars

\* C18 witness: memory was declared as 256 and then as 64, width as 256:
\* memory is 64, width is 256, height and tickrate are the defaults
C18_Witness ==
    /\ pc = "scan"
    /\ consumed = 6
    /\ output_json.meta[memory] = [neg |-> FALSE, hi |-> 0, lo |-> 64]
    /\ output_json.meta[width] = [neg |-> FALSE, hi |-> 0, lo |-> 256]
    /\ output_json.meta[height] = [neg |-> FALSE, hi |-> 0, lo |-> 100]
    /\ output_json.meta[tickrate] = [neg |-> FALSE, hi |-> 0, lo |-> 60]

FirstPass == {"scan", "meta_value", "args"}

\* C19: the argument scan starts empty on a mnemonic; while it runs the last
\* token taken is not a NEWLINE, so the stream, which ends with the appended
\* NEWLINE, still holds a token; every turn of the scan takes one token: a
\* NEWLINE ends the scan with the list as it is (and the record appended
\* holds that list), a COMMENT leaves the list as it is, any other token is
\* appended to it; the scan ends in no other way than at a NEWLINE or by the
\* lexer's failure; every turn of the first pass takes a token or ends the
\* pass, so the pass ends on a finite stream
C19_ArgumentScan ==
    /\ [](pc = "args" =>
              /\ last_token # "NEWLINE"
              /\ token.name = "NAME"
              /\ \A j \in 1..Len(returned_tokens) :
                    returned_tokens[j].name \notin {"COMMENT", "NEWLINE"})
    /\ [][ /\ (pc = "scan" /\ pc' = "args") =>
                  returned_tokens' = <<>> /\ token' = yielded'
           /\ pc = "args" =>
                  \/ /\ TakesToken("NEWLINE")
                     /\ pc' # "args"
                     /\ returned_tokens' = returned_tokens
                     /\ pc' = "scan" =>
                           raw_instructions' =
                               Append(raw_instructions,
                                      [token |-> token, args |-> returned_tokens])
                  \/ /\ TakesToken("COMMENT")
                     /\ pc' = "args"
                     /\ returned_tokens' = returned_tokens
                  \/ /\ consumed' = consumed + 1
                     /\ last_token' \notin {"NEWLINE", "COMMENT"}
                     /\ pc' = "args"
                     /\ returned_tokens' = Append(returned_tokens, yielded')
                  \/ /\ consumed' = consumed
                     /\ pc' = "exited"
                     /\ fatal'.message = "Unrecognized token."
           /\ pc \in FirstPass =>
                  consumed' = consumed + 1 \/ (consumed' = consumed /\ pc' \notin FirstPass)
           /\ pc \notin FirstPass => pc' \notin FirstPass
         ]_vars

\* C19 witness: the scan of an add line has taken two arguments and then a
\* comment: the list holds the two arguments and the scan goes on
C19_Witness ==
    /\ pc = "args"
    /\ consumed = 4
    /\ last_token = "COMMENT"
    /\ token = Token("NAME", add)
    /\ Len(returned_tokens) = 2

\* C20 as stated: the caret stands under the token's column: the number of
\* characters before it is the width of the prefix printed before the text
\* of the line (the line number from 1 and " | ") plus the column from 0
C20_Original ==
    rendered # <<>> =>
        Len(rendered.caret) - 1 =
            (Len(rendered.line) - Len(SourceLine)) + (source_pos.colno - 1)

====
